---- MODULE Spec2Model ----
(***************************************************************************)
(* Powerwall Prometheus exporter: controller.Run, PollEngine, model.Poll   *)
(* and view.PrometheusCounters.Update as a state machine.                  *)
(*                                                                         *)
(* Energy readings are float64 kWh in the program.  Here they are integers *)
(* in units of 0.0000005 kWh, so that the tolerance epsilon = 0.00001 kWh  *)
(* of Update is 20 units and every delta used is exact.                    *)
(***************************************************************************)
EXTENDS Integers, Sequences, FiniteSets, TLC

\* ------------------------------------------------------------------ bounds
\* Number of /metrics requests the environment sends in one behaviour.
MaxRequests == 2

\* ------------------------------------------------------- program constants
\* const epsilon = 0.00001 (kWh), in units of 0.0000005 kWh.
Epsilon == 20

\* model.MeterType values, by their String() names, in the order
\* getAggregates inserts them into the Meters map.
MeterOrder == <<"site", "load", "solar", "battery">>
MeterTypes == {"site", "load", "solar", "battery"}

\* kTo, kFrom
Dirs == {"to", "from"}

\* A poll cycle that requests site_info again after its own endpoints.
Endpoints_RefetchesSiteInfo ==
    <<"operation", "status", "networks", "sitemaster", "aggregates", "soe",
      "grid_status", "site_info">>

\* The endpoints one poll cycle requests, in the order getDynamicInfo and
\* getSOE request them.
Endpoints ==
    <<"operation", "status", "networks", "sitemaster", "aggregates", "soe",
      "grid_status">>

\* The endpoints fetchFixedInfo requests, in order.
FixedEndpoints == <<"site_info", "powerwalls", "config", "solars">>

\* The goroutines that run PollEngine.poll: Run itself (the startup poll) and
\* the net/http goroutines serving /metrics, one per request in flight.
Handlers == {"h1", "h2"}
Callers == {"Run"} \cup Handlers

\* --------------------------------------------------------- device answers
\* Cumulative readings the device reports (units of 0.0000005 kWh): every
\* meter reports `low` until its energy has moved, and the meter whose energy
\* moves reports its `high` pair at other times.  Between the two answers the
\* differences are -21 and +21 (beyond the tolerance), -1 and +1 (inside it),
\* -20 and +20 (exactly the tolerance) and 0.
Readings ==
    [low  |-> [to |-> 40, from |-> 40],
     high |-> [site    |-> [to |-> 61, from |-> 41],
               solar   |-> [to |-> 61, from |-> 41],
               load    |-> [to |-> 60, from |-> 61],
               battery |-> [to |-> 60, from |-> 61]]]

\* The /meters/aggregates answers of a device on which the energy counters of
\* meter m move (with resets): m reports its high pair or, as every other
\* meter does, the low pair.
AggregatesResponses(m) ==
    { [mt \in MeterTypes |->
         [d \in Dirs |->
            IF mt = m /\ high THEN Readings.high[mt][d] ELSE Readings.low[d]]]
      : high \in BOOLEAN }

\* The version strings /status reports, as sequences of characters:
\* "20.49.3", "20.49.3-rc1", "20.49", "v20.49.3", "9223372036854775807.0.0"
\* and "9223372036854775808.0.0".
VersionStrings ==
    { <<"2","0",".","4","9",".","3">>,
      <<"2","0",".","4","9",".","3","-","r","c","1">>,
      <<"2","0",".","4","9">>,
      <<"v","2","0",".","4","9",".","3">>,
      <<"9","2","2","3","3","7","2","0","3","6","8","5","4","7","7","5","8","0","7",
        ".","0",".","0">>,
      <<"9","2","2","3","3","7","2","0","3","6","8","5","4","7","7","5","8","0","8",
        ".","0",".","0">> }

\* Further version strings, of versions with a component of three digits and
\* of their neighbours: "1.100.0", "1.99.99", "2.0.0" and "20.50.0".
WideVersionStrings ==
    { <<"1",".","1","0","0",".","0">>,
      <<"1",".","9","9",".","9","9">>,
      <<"2",".","0",".","0">>,
      <<"2","0",".","5","0",".","0">> }

\* ------------------------------------------------- version parsing helpers
Digits == {"0", "1", "2", "3", "4", "5", "6", "7", "8", "9"}

DigitVal ==
    ("0" :> 0) @@ ("1" :> 1) @@ ("2" :> 2) @@ ("3" :> 3) @@ ("4" :> 4) @@
    ("5" :> 5) @@ ("6" :> 6) @@ ("7" :> 7) @@ ("8" :> 8) @@ ("9" :> 9)

\* math.MaxInt64 = 9223372036854775807, as decimal digits.
MaxInt64Digits ==
    <<"9","2","2","3","3","7","2","0","3","6","8","5","4","7","7","5","8","0","7">>

\* Index just after the longest run of digits of s that starts at i (\d+ is
\* greedy and the character after it in versionRegex is never a digit).
RECURSIVE RunEnd(_, _)
RunEnd(s, i) ==
    IF i <= Len(s) /\ s[i] \in Digits THEN RunEnd(s, i + 1) ELSE i

\* versionRegex.FindStringSubmatch: ^(\d+)\.(\d+)\.(\d+) ; the three captured
\* groups, or <<>> when the string does not match.
VersionSubmatch(s) ==
    LET e1 == RunEnd(s, 1)
        e2 == RunEnd(s, e1 + 1)
        e3 == RunEnd(s, e2 + 1)
    IN  IF /\ e1 > 1 /\ e1 <= Len(s) /\ s[e1] = "."
           /\ e2 > e1 + 1 /\ e2 <= Len(s) /\ s[e2] = "."
           /\ e3 > e2 + 1
        THEN <<SubSeq(s, 1, e1 - 1), SubSeq(s, e1 + 1, e2 - 1),
               SubSeq(s, e2 + 1, e3 - 1)>>
        ELSE <<>>

\* A decimal numeral without its leading zeros (at least one digit is kept).
RECURSIVE Canon(_)
Canon(ds) ==
    IF Len(ds) > 1 /\ Head(ds) = "0" THEN Canon(Tail(ds)) ELSE ds

\* ds <= es for canonical numerals of the same length.
RECURSIVE DigitsLeq(_, _)
DigitsLeq(ds, es) ==
    IF ds = <<>> THEN TRUE
    ELSE IF DigitVal[Head(ds)] # DigitVal[Head(es)]
         THEN DigitVal[Head(ds)] < DigitVal[Head(es)]
         ELSE DigitsLeq(Tail(ds), Tail(es))

\* strconv.ParseInt(s, 10, 64) of a string of digits: the int64 value (kept
\* as its canonical numeral) or a range error.
ParseInt(ds) ==
    LET c == Canon(ds)
        fits == \/ Len(c) < Len(MaxInt64Digits)
                \/ Len(c) = Len(MaxInt64Digits) /\ DigitsLeq(c, MaxInt64Digits)
    IN  IF ds # <<>> /\ fits THEN [ok |-> TRUE, val |-> c]
        ELSE [ok |-> FALSE, val |-> <<"0">>]

\* fmt.Sprintf("%02d", n) for n >= 0.
Pad2(n) == IF Len(n) < 2 THEN <<"0">> \o n ELSE n

\* fmt.Sprintf("%02d%02d%02d", Major, Minor, Release)
FlattenString(v) == Pad2(v.Major) \o Pad2(v.Minor) \o Pad2(v.Release)

\* A projection that takes a missing or oversized group for zero.
ParseVersion_Lenient(s) ==
    LET e1 == RunEnd(s, 1)
        e2 == IF e1 <= Len(s) THEN RunEnd(s, e1 + 1) ELSE e1
        n(ds) == IF ParseInt(ds).ok THEN ParseInt(ds).val ELSE <<"0">>
    IN  [ok |-> TRUE,
         v |-> [Major |-> n(SubSeq(s, 1, e1 - 1)),
                Minor |-> n(SubSeq(s, e1 + 1, e2 - 1)),
                Release |-> <<"0">>]]

\* getStatus's projection of the version string: the SoftwareVersion, or the
\* error of the regex mismatch or of a ParseInt.
ParseVersion(s) ==
    LET parts == VersionSubmatch(s)
    IN  IF Len(parts) # 3 THEN [ok |-> FALSE, v |-> <<>>]
        ELSE LET a == ParseInt(parts[1])
                 b == ParseInt(parts[2])
                 c == ParseInt(parts[3])
             IN  IF a.ok /\ b.ok /\ c.ok
                 THEN [ok |-> TRUE,
                       v |-> [Major |-> a.val, Minor |-> b.val, Release |-> c.val]]
                 ELSE [ok |-> FALSE, v |-> <<>>]

\* A nil pointer (a record, as the values it stands in for are).
Nil == [nil |-> TRUE]

\* ------------------------------------------------------------ enum codecs
\* stringToInterface: Ethernet, Cellular, Wifi are 0, 1, 2 (iota).
stringToInterface == [EthType |-> 0, GsmType |-> 1, WifiType |-> 2]

\* stringToOperatingMode: Backup, SelfConsumption, Autonomous, Scheduler,
\* SiteControl are 0..4.
stringToOperatingMode ==
    [backup |-> 0, self_consumption |-> 1, autonomous |-> 2, scheduler |-> 3,
     site_control |-> 4]

\* stringToSystemStatus: GridConnected, IslandedReady, IslandedActive,
\* TransitionToGrid are 0..3.
stringToSystemStatus ==
    [SystemGridConnected |-> 0, SystemIslandedReady |-> 1,
     SystemIslandedActive |-> 2, SystemTransitionToGrid |-> 3]

\* stringToGridState: Compliant, Qualifying, Uncompliant are 0, 1, 2.
stringToGridState ==
    [Grid_Compliant |-> 0, Grid_Qualifying |-> 1, Grid_Uncompliant |-> 2]

\* An enum decoder that takes an unknown token for the zero value.
UnmarshalEnum_Defaulting(table, s) ==
    IF s \in DOMAIN table THEN [ok |-> TRUE, val |-> table[s]]
    ELSE [ok |-> TRUE, val |-> 0]

\* The UnmarshalJSON of the four enum types: `*n, ok = table[s]; if !ok
\* { return fmt.Errorf(...) }` (a failed lookup stores the zero value).
UnmarshalEnum(table, s) ==
    IF s \in DOMAIN table THEN [ok |-> TRUE, val |-> table[s]]
    ELSE [ok |-> FALSE, val |-> 0]

\* The tokens the device sends in enum fields: every token of the four
\* tables, tokens that differ from one only in case, the String() name of a
\* value, an unknown token and the empty string.
EnumTokens ==
    DOMAIN stringToInterface \cup DOMAIN stringToOperatingMode \cup
    DOMAIN stringToSystemStatus \cup DOMAIN stringToGridState \cup
    {"ethtype", "WIFITYPE", "Backup", "Self_Consumption",
     "systemgridconnected", "grid_compliant", "GRID_QUALIFYING", "ethernet",
     "unknown", ""}

\* --------------------------------------------------------- Duration codec
\* The value of a short decimal numeral.
RECURSIVE NatOf(_)
NatOf(ds) ==
    IF ds = <<>> THEN 0
    ELSE 10 * NatOf(SubSeq(ds, 1, Len(ds) - 1)) + DigitVal[ds[Len(ds)]]

\* `(\d+?)x` at position p of s, for a letter x: the digits captured and the
\* position after x, or <<>> when it does not match there (the run of digits
\* at p must end at x).
DigitsThen(s, p, x) ==
    LET e == RunEnd(s, p)
    IN  IF e > p /\ e <= Len(s) /\ s[e] = x
        THEN <<[cap |-> SubSeq(s, p, e - 1), next |-> e + 1]>>
        ELSE <<>>

\* The ways `((\d+?)x)?` can match at p, in the order the matcher tries
\* them: with the group, then without it (capture empty).
OptionalGroup(s, p, x) == DigitsThen(s, p, x) \o <<[cap |-> <<>>, next |-> p]>>

\* The least element of a non-empty set of numbers.
Least(S) == CHOOSE k \in S : \A j \in S : k <= j

\* The captures of the seconds and nanoseconds groups when the seconds group
\* takes k digits at q.
SecondsWith(s, q, k) ==
    <<[seconds |-> SubSeq(s, q, q + k - 1),
       nanoseconds |-> DigitsThen(s, q + k + 1, "s")[1].cap]>>

\* The lazy seconds group takes the least of the lengths ks that match.
SecondsFrom(s, q, ks) ==
    IF ks = {} THEN <<>> ELSE SecondsWith(s, q, Least(ks))

\* `((\d+?).)((\d+?)s)` at position q: the lazy seconds group takes k digits,
\* k = 1, 2, ..., then `.` takes any one character, then the nanoseconds
\* group takes the run of digits that ends at "s".  The first k that matches.
SecondsAt(s, q) ==
    SecondsFrom(s, q, {k \in 1..(RunEnd(s, q) - q) :
                         q + k <= Len(s) /\ DigitsThen(s, q + k + 1, "s") # <<>>})

\* The first of the tries (each <<>> or a match) that is a match, or <<>>.
FirstOf(tries, good) == IF good = {} THEN <<>> ELSE tries[Least(good)]

FirstMatch(tries) == FirstOf(tries, {i \in 1..Len(tries) : tries[i] # <<>>})

\* The named captures of a match whose hours group matched as h, minutes
\* group as m and seconds part as sec (<<>> when that did not match).
Captures(h, m, sec) ==
    IF sec = <<>> THEN <<>>
    ELSE <<[hours |-> h.cap, minutes |-> m.cap, seconds |-> sec[1].seconds,
            nanoseconds |-> sec[1].nanoseconds]>>

\* The rest of uptimeRegex after the minutes group matched as m.
MinutesThen(s, h, m) == Captures(h, m, SecondsAt(s, m.next))

\* The rest of uptimeRegex after the hours group matched as h: the ways ms
\* of the minutes group, in the matcher's order.
HoursThen(s, h, ms) ==
    FirstMatch(<<MinutesThen(s, h, ms[1]), MinutesThen(s, h, ms[Len(ms)])>>)

\* uptimeRegex with the ways hs of the hours group, in the matcher's order.
UptimeGroups(s, hs) ==
    FirstMatch(<<HoursThen(s, hs[1], OptionalGroup(s, hs[1].next, "m")),
                 HoursThen(s, hs[Len(hs)],
                           OptionalGroup(s, hs[Len(hs)].next, "m"))>>)

\* uptimeRegex matched at position p: the captures of the first successful
\* way in the matcher's order, or <<>>.
UptimeMatchAt(s, p) == UptimeGroups(s, OptionalGroup(s, p, "h"))

\* The match at the leftmost of the positions where uptimeRegex matches.
LeftmostMatch(s, starts) ==
    IF starts = {} THEN <<>> ELSE UptimeMatchAt(s, Least(starts))

\* uptimeRegex.FindStringSubmatch(s): the named captures of the leftmost
\* match, or <<>> (nil) when s has no match.
UptimeSubmatch(s) ==
    LeftmostMatch(s, {p \in 1..Len(s) : UptimeMatchAt(s, p) # <<>>})

\* A time.Duration, kept as whole seconds and nanoseconds.
ZeroDuration == [secs |-> 0, nanos |-> 0]

\* `*d = Duration(Hour*hours + Minute*minutes + Second*seconds + nanoseconds)`
\* of the four ParseInt results, or the error of one of them.
DurationOfInts(h, mi, sec, ns) ==
    IF h.ok /\ mi.ok /\ sec.ok /\ ns.ok
    THEN [ok |-> TRUE,
          val |-> [secs |-> NatOf(h.val) * 3600 + NatOf(mi.val) * 60 +
                            NatOf(sec.val),
                   nanos |-> NatOf(ns.val)]]
    ELSE [ok |-> FALSE, val |-> ZeroDuration]

\* The loop over the named captures of the match m: every one goes through
\* strconv.ParseInt.  Without a match the loop has nothing to parse and the
\* result is zero, no error.
DurationOfMatch(m) ==
    IF m = <<>> THEN [ok |-> TRUE, val |-> ZeroDuration]
    ELSE DurationOfInts(ParseInt(m[1].hours), ParseInt(m[1].minutes),
                        ParseInt(m[1].seconds), ParseInt(m[1].nanoseconds))

\* Duration.UnmarshalJSON: every named capture of the match goes through
\* strconv.ParseInt, whose error is returned; the parsed groups are combined
\* as hours*Hour + minutes*Minute + seconds*Second + nanoseconds.
DurationUnmarshalJSON(s) == DurationOfMatch(UptimeSubmatch(s))

\* The up_time_seconds strings of /status: "143h54m32.539257895s",
\* "54m32.5s", "5h3.25s", "5.0s", "1h2m3s", "up" and "".
UptimeStrings ==
    { <<"1","4","3","h","5","4","m","3","2",".","5","3","9","2","5","7","8","9","5","s">>,
      <<"5","4","m","3","2",".","5","s">>,
      <<"5","h","3",".","2","5","s">>,
      <<"5",".","0","s">>,
      <<"1","h","2","m","3","s">>,
      <<"u","p">>,
      <<>> }

\* ------------------------------------------------------------- Time codec
\* A Time.UnmarshalJSON without the stripping of the fraction.
StripFractionalSeconds_Keeps(s) == s

\* stripFractionalSeconds, `^(.*)\.\d+(.*)$`, and `s = got[1] + got[2]`: the
\* greedy first group ends at the last "." that a digit follows, and the run
\* of digits after it is dropped; s itself when there is no such ".".
StripFractionalSeconds(s) ==
    LET dots == {i \in 1..(Len(s) - 1) : s[i] = "." /\ s[i + 1] \in Digits}
    IN  IF dots = {} THEN s
        ELSE LET i == CHOOSE i \in dots : \A j \in dots : j <= i
             IN  SubSeq(s, 1, i - 1) \o SubSeq(s, RunEnd(s, i + 1), Len(s))

\* The three layouts of Time.UnmarshalJSON, "2006-01-02T15:04:05-07:00",
\* "2006-01-02 15:04:05 -0700" and "2006-01-02T15:04:05Z": the character
\* between date and clock, and the form of the zone.
Layouts ==
    << [sep |-> "T", zone |-> "-07:00"],
       [sep |-> " ", zone |-> " -0700"],
       [sep |-> "T", zone |-> "Z"] >>

\* The zero time.Time.
ZeroTime ==
    [year |-> 1, month |-> 1, day |-> 1, hour |-> 0, min |-> 0, sec |-> 0,
     nsec |-> 0, offset |-> 0]

\* The characters of s from a to b are all digits.
AllDigits(s, a, b) == b <= Len(s) /\ \A i \in a..b : s[i] \in Digits

\* The nanoseconds of a fraction of a second given by its digits: the first
\* nine digits, padded with zeros on the right.
RECURSIVE NanosOf(_)
NanosOf(frac) ==
    IF Len(frac) > 9 THEN NanosOf(SubSeq(frac, 1, 9))
    ELSE IF Len(frac) < 9 THEN NanosOf(frac \o <<"0">>)
    ELSE NatOf(frac)

\* The zone of layout l at position q of s, up to the end of s: the offset
\* in minutes east of UTC, or <<>>.
ZoneAt(l, s, q) ==
    LET sign == IF s[q] = "-" THEN -1 ELSE 1
        hhmm(h, m) == sign * (NatOf(SubSeq(s, h, h + 1)) * 60 +
                              NatOf(SubSeq(s, m, m + 1)))
    IN  CASE l.zone = "Z" ->
               IF Len(s) = q /\ s[q] = "Z" THEN <<0>> ELSE <<>>
          [] l.zone = "-07:00" ->
               IF /\ Len(s) = q + 5 /\ s[q] \in {"+", "-"}
                  /\ AllDigits(s, q + 1, q + 2) /\ s[q + 3] = ":"
                  /\ AllDigits(s, q + 4, q + 5)
               THEN <<hhmm(q + 1, q + 4)>> ELSE <<>>
          [] l.zone = " -0700" ->
               IF /\ Len(s) = q + 5 /\ s[q] = " " /\ s[q + 1] \in {"+", "-"}
                  /\ AllDigits(s, q + 2, q + 5)
               THEN <<IF s[q + 1] = "-"
                      THEN -(NatOf(SubSeq(s, q + 2, q + 3)) * 60 +
                             NatOf(SubSeq(s, q + 4, q + 5)))
                      ELSE NatOf(SubSeq(s, q + 2, q + 3)) * 60 +
                           NatOf(SubSeq(s, q + 4, q + 5))>>
               ELSE <<>>

\* time.Parse(l, s): four-digit year, two-digit month, day, hour, minute and
\* second in their ranges; after the seconds time.Parse accepts a fraction
\* ("." or "," and digits) although the layout has none; then the zone.
TimeParse(l, s) ==
    LET shape == /\ Len(s) >= 19
                 /\ AllDigits(s, 1, 4) /\ s[5] = "-" /\ AllDigits(s, 6, 7)
                 /\ s[8] = "-" /\ AllDigits(s, 9, 10) /\ s[11] = l.sep
                 /\ AllDigits(s, 12, 13) /\ s[14] = ":" /\ AllDigits(s, 15, 16)
                 /\ s[17] = ":" /\ AllDigits(s, 18, 19)
        n(a, b) == NatOf(SubSeq(s, a, b))
        hasFrac == /\ Len(s) >= 21 /\ s[20] \in {".", ","} /\ s[21] \in Digits
        q == IF hasFrac THEN RunEnd(s, 21) ELSE 20
        zone == IF q <= Len(s) THEN ZoneAt(l, s, q) ELSE <<>>
    IN  IF /\ shape
           /\ n(6, 7) \in 1..12 /\ n(9, 10) \in 1..31
           /\ n(12, 13) <= 23 /\ n(15, 16) <= 59 /\ n(18, 19) <= 59
           /\ zone # <<>>
        THEN [ok |-> TRUE,
              val |-> [year |-> n(1, 4), month |-> n(6, 7), day |-> n(9, 10),
                       hour |-> n(12, 13), min |-> n(15, 16),
                       sec |-> n(18, 19),
                       nsec |-> IF hasFrac THEN NanosOf(SubSeq(s, 21, q - 1))
                                ELSE 0,
                       offset |-> zone[1]]]
        ELSE [ok |-> FALSE, val |-> ZeroTime]

\* Time.UnmarshalJSON: "" is the zero time; otherwise the fraction is
\* stripped and the first layout that parses gives the time; an error when
\* none does.
TimeUnmarshalJSON(s) ==
    IF s = <<>> THEN [ok |-> TRUE, val |-> ZeroTime]
    ELSE LET t == StripFractionalSeconds(s)
             good == {i \in 1..Len(Layouts) : TimeParse(Layouts[i], t).ok}
         IN  IF good = {} THEN [ok |-> FALSE, val |-> ZeroTime]
             ELSE TimeParse(Layouts[CHOOSE i \in good : \A j \in good : i <= j], t)

\* The parts the device's timestamps are made of: "2019-07-01", "T" or " ",
\* "10:00:00", a fraction of a second or none, and a zone.
DateChars == <<"2","0","1","9","-","0","7","-","0","1">>
ClockChars == <<"1","0",":","0","0",":","0","0">>
Fractions ==
    { <<".","1","2","3","4","5","6","7","8","9">>, <<".","5">>, <<".","0","0","7">> }
ZoneChars ==
    { <<"-","0","7",":","0","0">>, <<"+","0","5",":","3","0">>,
      <<" ","-","0","7","0","0">>, <<"Z">>, <<>> }

\* The timestamps without a fraction, in the three layouts and in forms that
\* match none of them (separator and zone of different layouts, no zone).
PlainTimes ==
    { DateChars \o <<sep>> \o ClockChars \o z : sep \in {"T", " "}, z \in ZoneChars }

\* The timestamp b with the fraction f after its seconds.
WithFraction(b, f) == SubSeq(b, 1, 19) \o f \o SubSeq(b, 20, Len(b))

\* The timestamps the device sends: plain, with a fraction, a date alone and
\* the empty string.
TimeStrings ==
    PlainTimes \cup {WithFraction(b, f) : b \in PlainTimes, f \in Fractions}
    \cup {DateChars, <<>>}

\* --------------------------------------------------------- TimeZone codec
\* The zone names the machine's time zone database holds, when it has one.
ZoneDatabase == {"America/Los_Angeles", "Europe/Berlin"}

\* time.LoadLocation(name): "" and "UTC" are UTC and "Local" is the local
\* zone; any other name is looked up in the time zone database, which the
\* machine may lack (tzdb is FALSE then).
LoadLocation(name, tzdb) ==
    IF name \in {"", "UTC"} THEN [ok |-> TRUE, loc |-> [name |-> "UTC"]]
    ELSE IF name = "Local" THEN [ok |-> TRUE, loc |-> [name |-> "Local"]]
    ELSE IF tzdb /\ name \in ZoneDatabase THEN [ok |-> TRUE, loc |-> [name |-> name]]
    ELSE [ok |-> FALSE, loc |-> Nil]

\* A TimeZone.UnmarshalJSON that returns the error of LoadLocation.
TimeZoneUnmarshalJSON_Propagates(name, tzdb) ==
    [ok |-> LoadLocation(name, tzdb).ok, val |-> LoadLocation(name, tzdb).loc]

\* TimeZone.UnmarshalJSON: the location LoadLocation found; when it fails the
\* error is logged, nil is returned and t.loc stays nil.
TimeZoneUnmarshalJSON(name, tzdb) ==
    [ok |-> TRUE, val |-> LoadLocation(name, tzdb).loc]

\* The timezone names /site_info reports.
ZoneNames == {"America/Los_Angeles", "Europe/Berlin", "UTC", "Mars/Olympus", ""}

\* ------------------------------------------------------------- FixedInfo
\* What the device answers on the endpoints of fetchFixedInfo: the site_info
\* fields used, the PackageSerialNumber of each powerwall, the VIN of config
\* and the power_rating_watts of each solar.
FixedAnswers ==
    [site_info  |-> [NominalSystemEnergykWh |-> 27, NominalSystemPowerkW |-> 10,
                     SiteName |-> "home"],
     powerwalls |-> <<"serial1", "serial2">>,
     config     |-> [VIN |-> "vin1"],
     solars     |-> <<3000, 4000>>]

RECURSIVE SumSeq(_)
SumSeq(q) == IF q = <<>> THEN 0 ELSE Head(q) + SumSeq(Tail(q))

\* fi := FixedInfo{...} of fetchFixedInfo, from the four answers.
FetchFixedInfo(a) ==
    [NominalSystemEnergykWh |-> a.site_info.NominalSystemEnergykWh,
     NominalSystemPowerkW |-> a.site_info.NominalSystemPowerkW,
     SiteName |-> a.site_info.SiteName,
     NumPowerwalls |-> Len(a.powerwalls),
     PowerwallSerialNumbers |-> a.powerwalls,
     VIN |-> a.config.VIN,
     TotalSolarPowerRatingWatts |-> SumSeq(a.solars)]

\* The device's count of the GET requests on the endpoints of fetchFixedInfo,
\* after a GET on endpoint e.
Requested(req, e) ==
    IF e \in DOMAIN req THEN [req EXCEPT ![e] = req[e] + 1] ELSE req

\* ------------------------------------------------------------------ state
VARIABLES
    runPc,            \* where controller.Run is: "login", "fixed", "view",
                      \* "poll", "listen", "serving"; "exited" once Run has
                      \* returned an error; "crashed" after a runtime fatal error
    runErr,           \* the error Run returned, "none" so far
    startup,          \* the outcome of each startup step of Run
    fixedEp,          \* index of the next endpoint fetchFixedInfo requests
    eng,              \* per caller of PollEngine.poll: its position and locals
    priorCumulative,  \* PrometheusCounters.priorCumulative[meter][direction]
    cumulativePower,  \* the cumulative_power CounterVec, by meter and direction
    gauges,           \* the version gauges: major, minor, release, flattened
    warnings,         \* number of glog.Warningf lines written by Update
    errorsLogged,     \* number of glog.Errorf lines written by ServeHTTP
    resp,             \* per handler: the response written to its request
    requests,         \* number of /metrics requests received so far
    tickerC,          \* number of ticks buffered in PollEngine.ticker.C
    alone,            \* per caller: no other poll cycle has been in flight
                      \* since this caller's cycle began
    moving,           \* the device: the meter whose energy counters move
    requested,        \* number of GET requests sent so far to each of the
                      \* endpoints of fetchFixedInfo
    fixed,            \* PollEngine.fixed: the FixedInfo, Nil before model.New
    closePc,          \* where a caller of PollEngine.Close is
    dec,              \* the last response decoded by a Get call of the
                      \* powerwall client: endpoint, raw fields, result
    fetched,          \* per caller: the endpoints its current poll cycle has
                      \* sent a GET request to so far, in order
    steady,           \* so far the poll cycles have run one at a time and no
                      \* reading was below the value stored for it
    base              \* while poll cycles are in flight: the stored values,
                      \* the counters and the number of requests as they were
                      \* when the first of them began with no other in flight

vars ==
    <<runPc, runErr, startup, fixedEp, eng, priorCumulative, cumulativePower,
      gauges, warnings, errorsLogged, resp, requests, tickerC, alone, moving,
      requested, fixed, closePc, dec, fetched, steady, base>>

StartupSteps == <<"login", "fixed", "view", "poll", "listen">>

NoVersion == [Major |-> <<"0">>, Minor |-> <<"0">>, Release |-> <<"0">>]
NoMeters == [mt \in MeterTypes |-> [d \in Dirs |-> 0]]

\* No Get call has decoded a response yet.
NotDecoded == [endpoint |-> "none"]

\* No poll cycle is in flight.
NoBase == [prior |-> NoMeters, counter |-> NoMeters, requests |-> 0]

\* A caller that is not inside PollEngine.poll.
IdleEng ==
    [pc |-> "idle", ep |-> 1, err |-> "none", version |-> NoVersion,
     meters |-> NoMeters, order |-> <<>>, mt |-> "none", delta |-> 0]

NoResponse == [status |-> 0, body |-> "none"]

Init ==
    /\ runPc = "login"
    /\ runErr = "none"
    /\ startup = [s \in {StartupSteps[i] : i \in 1..Len(StartupSteps)} |-> "pending"]
    /\ fixedEp = 1
    /\ eng = [c \in Callers |-> IdleEng]
    /\ priorCumulative = [mt \in MeterTypes |-> [d \in Dirs |-> 0]]
    /\ cumulativePower = [mt \in MeterTypes |-> [d \in Dirs |-> 0]]
    /\ gauges = [major |-> <<"0">>, minor |-> <<"0">>, release |-> <<"0">>,
                 flattened |-> <<"0">>]
    /\ warnings = 0
    /\ errorsLogged = 0
    /\ resp = [h \in Handlers |-> NoResponse]
    /\ requests = 0
    /\ tickerC = 0
    /\ alone = [c \in Callers |-> TRUE]
    /\ moving \in MeterTypes
    /\ requested = [e \in {FixedEndpoints[i] : i \in 1..Len(FixedEndpoints)} |-> 0]
    /\ fixed = Nil
    /\ closePc = "idle"
    /\ dec = NotDecoded
    /\ fetched = [c \in Callers |-> <<>>]
    /\ steady = TRUE
    /\ base = NoBase

\* Positions inside PollEngine.poll (model.Poll, then view.Update).
PollPcs ==
    {"fetch", "update", "flatten", "priorTo", "storeTo", "branchTo",
     "priorFrom", "branchFrom", "storeFrom"}

InPoll(c) == eng[c].pc \in PollPcs

\* ----------------------------------------------------------- controller.Run
\* The error Run wraps for each startup step.
RunErrorOf(step) ==
    CASE step = "login"  -> "powerwall.New"
      [] step = "fixed"  -> "model.New"
      [] step = "view"   -> "view.New"
      [] step = "poll"   -> "poll"
      [] step = "listen" -> "http.ServeMetrics"

\* A Run that registers the handler and listens before its first poll.
NextStepOf_ListensBeforePoll(step) ==
    CASE step = "login"  -> "fixed"
      [] step = "fixed"  -> "view"
      [] step = "view"   -> "listen"
      [] step = "listen" -> "serving"
      [] step = "poll"   -> "serving"

\* Where Run goes after each startup step that succeeded.
NextStepOf(step) ==
    CASE step = "login"  -> "fixed"
      [] step = "fixed"  -> "view"
      [] step = "view"   -> "poll"
      [] step = "poll"   -> "listen"
      [] step = "listen" -> "serving"

\* A Run that returns an error for a failed first poll only.
RunAfter_OnlyPollFails(step, failed) ==
    IF failed /\ step = "poll" THEN [pc |-> "exited", err |-> RunErrorOf(step)]
    ELSE [pc |-> NextStepOf(step), err |-> "none"]

\* Run's `if err != nil { return fmt.Errorf(...) }` after each startup step.
RunAfter(step, failed) ==
    IF failed THEN [pc |-> "exited", err |-> RunErrorOf(step)]
    ELSE [pc |-> NextStepOf(step), err |-> "none"]

RunAdvance(step, failed) ==
    /\ runPc' = RunAfter(step, failed).pc
    /\ runErr' = RunAfter(step, failed).err
    /\ startup' = [startup EXCEPT ![step] = IF failed THEN "failed" ELSE "ok"]

\* powerwall.New: builds the client and logs in (POST /login/Basic).
Login ==
    /\ runPc = "login"
    /\ \E failed \in BOOLEAN : RunAdvance("login", failed)
    /\ UNCHANGED <<fixedEp, eng, priorCumulative, cumulativePower, gauges,
                   warnings, errorsLogged, resp, requests, tickerC, alone,
                   moving, requested, fixed, closePc, dec, fetched,
                   steady, base>>

\* model.New -> fetchFixedInfo: one request per fixed endpoint, in order; the
\* first error is returned.
FetchFixed ==
    /\ runPc = "fixed"
    /\ fixedEp <= Len(FixedEndpoints)
    /\ requested' = Requested(requested, FixedEndpoints[fixedEp])
    /\ \E failed \in BOOLEAN :
         IF failed
         THEN /\ RunAdvance("fixed", TRUE)
              /\ fixedEp' = fixedEp
              /\ fixed' = fixed
         ELSE /\ fixedEp' = fixedEp + 1
              /\ IF fixedEp = Len(FixedEndpoints)
                 THEN /\ RunAdvance("fixed", FALSE)
                      /\ fixed' = FetchFixedInfo(FixedAnswers)
                 ELSE UNCHANGED <<runPc, runErr, startup, fixed>>
    /\ UNCHANGED <<eng, priorCumulative, cumulativePower, gauges, warnings,
                   errorsLogged, resp, requests, tickerC, alone,
                   moving, closePc, dec, fetched, steady, base>>

\* view.New registers the collectors (prometheus.Register may fail) and makes
\* the priorCumulative maps; Run then builds the PollEngine with its ticker.
ViewNew ==
    /\ runPc = "view"
    /\ \E failed \in BOOLEAN : RunAdvance("view", failed)
    /\ UNCHANGED <<fixedEp, eng, priorCumulative, cumulativePower, gauges,
                   warnings, errorsLogged, resp, requests, tickerC, alone,
                   moving, requested, fixed, closePc, dec, fetched,
                   steady, base>>

\* ------------------------------------------------------- PollEngine.poll
\* A caller inside a poll cycle whose result has not been consumed yet.
InCycle(c) == eng[c].pc \in PollPcs \cup {"polled"}

\* The goroutine of caller c can take a step: Run while it is at its startup
\* poll, a handler while the HTTP server is serving.
Active(c) == IF c = "Run" THEN runPc = "poll" ELSE runPc = "serving"

\* Caller c enters PollEngine.poll -> model.Poll with a fresh
\* TeslaEnergyGatewayMetrics.
BeginPoll(c) ==
    /\ eng' = [eng EXCEPT ![c] = [IdleEng EXCEPT !.pc = "fetch"]]
    /\ alone' = [x \in Callers |->
                   IF x = c THEN \A y \in Callers \ {c} : ~InCycle(y)
                   ELSE IF InCycle(x) THEN FALSE ELSE alone[x]]
    /\ steady' = (steady /\ \A y \in Callers \ {c} : ~InCycle(y))
    /\ base' = IF \A y \in Callers \ {c} : ~InCycle(y)
               THEN [prior |-> priorCumulative, counter |-> cumulativePower,
                     requests |-> requests]
               ELSE base

\* The caller of poll has taken the result of the cycle of c: with no other
\* cycle in flight, none is in flight any more.
EndPoll(c) == IF \A y \in Callers \ {c} : ~InCycle(y) THEN NoBase ELSE base

\* A poll that calls Update although model.Poll returned an error.
PollAfterModelPoll_IgnoresError(err) == "update"

\* poll(): `stats, err := model.Poll(...); if err != nil { return err };
\* return p.view.Update(stats)`: where poll goes once model.Poll has returned.
PollAfterModelPoll(err) == IF err # "none" THEN "polled" ELSE "update"

\* A getDynamicInfo that notes the error of an op and goes on to the next.
FetchResult_GoesOnAfterError(c, e, failed, version, meters) ==
    LET r == eng[c]
        last == r.ep = Len(Endpoints)
    IN  [r EXCEPT !.ep = r.ep + 1,
                  !.err = IF failed THEN e ELSE r.err,
                  !.version = version,
                  !.meters = meters,
                  !.pc = IF last
                         THEN PollAfterModelPoll(IF failed THEN e ELSE r.err)
                         ELSE "fetch"]

\* One op of getDynamicInfo's list requests its endpoint (getSOE requests soe
\* and then grid_status).  An error ends model.Poll at once; a good answer is
\* projected into the metrics record.
FetchResult(c, e, failed, version, meters) ==
    LET r == eng[c]
        last == r.ep = Len(Endpoints)
    IN  IF failed
        THEN [r EXCEPT !.err = e, !.pc = PollAfterModelPoll(e)]
        ELSE [r EXCEPT !.ep = r.ep + 1,
                       !.version = version,
                       !.meters = meters,
                       !.pc = IF last THEN PollAfterModelPoll("none") ELSE "fetch"]

Fetch(c) ==
    /\ Active(c)
    /\ eng[c].pc = "fetch"
    /\ LET e == Endpoints[eng[c].ep]
       IN  \/ eng' = [eng EXCEPT ![c] =
                        FetchResult(c, e, TRUE, eng[c].version, eng[c].meters)]
           \/ /\ e = "status"
              /\ \E s \in VersionStrings :
                   LET pv == ParseVersion(s)
                   IN  eng' = [eng EXCEPT ![c] =
                                 IF pv.ok
                                 THEN FetchResult(c, e, FALSE, pv.v, eng[c].meters)
                                 ELSE FetchResult(c, "version", TRUE,
                                                  eng[c].version, eng[c].meters)]
           \/ /\ e = "aggregates"
              /\ \E a \in AggregatesResponses(moving) :
                   eng' = [eng EXCEPT ![c] =
                             FetchResult(c, e, FALSE, eng[c].version, a)]
           \/ /\ e \notin {"status", "aggregates"}
              /\ eng' = [eng EXCEPT ![c] =
                           FetchResult(c, e, FALSE, eng[c].version, eng[c].meters)]
    /\ requested' = Requested(requested, Endpoints[eng[c].ep])
    /\ fetched' = [fetched EXCEPT ![c] = Append(fetched[c], Endpoints[eng[c].ep])]
    /\ UNCHANGED <<runPc, runErr, startup, fixedEp, priorCumulative,
                   cumulativePower, gauges, warnings, errorsLogged, resp,
                   requests, tickerC, alone,
                   moving, fixed, closePc, dec, steady, base>>

\* ------------------------------------------------ PrometheusCounters.Update
\* Update up to the version gauges: charge, mode, reserve and uptime gauges
\* (not modelled) and majorVersion, minorVersion, releaseVersion.
UpdateGauges(c) ==
    /\ Active(c)
    /\ eng[c].pc = "update"
    /\ gauges' = [gauges EXCEPT !.major = eng[c].version.Major,
                                !.minor = eng[c].version.Minor,
                                !.release = eng[c].version.Release]
    /\ eng' = [eng EXCEPT ![c].pc = "flatten"]
    /\ UNCHANGED <<runPc, runErr, startup, fixedEp, priorCumulative,
                   cumulativePower, warnings, errorsLogged, resp, requests,
                   tickerC, alone,
                   moving, requested, fixed, closePc, dec, fetched,
                   steady, base>>

\* The orders in which `range m.Meters` visits the four entries: the map
\* holds them in one bucket in insertion order and the iteration starts at a
\* random offset, so the order is a rotation of MeterOrder.  RangeStarts are
\* the offsets explored: the loop starts at "site" or at "solar".
RangeStarts == {1, 3}

RangeOrders ==
    { [i \in 1..Len(MeterOrder) |->
         MeterOrder[((i + k - 2) % Len(MeterOrder)) + 1]]
      : k \in RangeStarts }

\* fs := Sprintf(...); flat, err := ParseInt(fs): on error Update returns it;
\* otherwise flattenedVersion is set, then the network and site master gauges
\* (not modelled), and the meter loop starts at its first entry.
Flatten(c) ==
    /\ Active(c)
    /\ eng[c].pc = "flatten"
    /\ LET flat == ParseInt(FlattenString(eng[c].version))
       IN  IF ~flat.ok
           THEN /\ eng' = [eng EXCEPT ![c].err = "flatten", ![c].pc = "polled"]
                /\ UNCHANGED gauges
           ELSE /\ gauges' = [gauges EXCEPT !.flattened = flat.val]
                /\ \E o \in RangeOrders :
                     eng' = [eng EXCEPT ![c].pc = "priorTo",
                                        ![c].mt = Head(o),
                                        ![c].order = Tail(o)]
    /\ UNCHANGED <<runPc, runErr, startup, fixedEp, priorCumulative,
                   cumulativePower, warnings, errorsLogged, resp, requests,
                   tickerC, alone,
                   moving, requested, fixed, closePc, dec, fetched,
                   steady, base>>

\* A delta that is the reading itself, the stored value forgotten.
Delta_IgnoresPrior(reading, prior) == reading

\* delta := meter.CumulativeEnergyX - prior
Delta(reading, prior) == reading - prior

\* p.priorCumulative[mt][dir] = meter.CumulativeEnergyX: the value stored,
\* given the reading, the value stored before and the delta computed.
StoredValue(reading, old, delta) == reading

\* A warning on every decrease, the tolerance forgotten.
Warns_AnyDecrease(delta) == delta < 0

\* `if delta < 0 { if delta < -epsilon { glog.Warningf(...) } }`
Warns(delta) == delta < 0 /\ delta < -Epsilon

\* An Add without the sign test.
AddDelta_Unguarded(counter, delta) == counter + delta

\* An Add of the magnitude of a negative delta.
AddDelta_Magnitude(counter, delta) ==
    IF delta < 0 THEN counter - delta ELSE counter + delta

\* `if delta < 0 { ... } else { p.cumulativePower.With(...).Add(delta) }`:
\* the counter's value afterwards.
AddDelta(counter, delta) == IF delta < 0 THEN counter ELSE counter + delta

\* prior := p.priorCumulative[mt][dir]; delta := reading - prior
ReadPrior(c, d, nextPc) ==
    /\ Active(c)
    /\ eng[c].pc = (IF d = "to" THEN "priorTo" ELSE "priorFrom")
    /\ eng' = [eng EXCEPT
                 ![c].delta = Delta(eng[c].meters[eng[c].mt][d],
                                    priorCumulative[eng[c].mt][d]),
                 ![c].pc = nextPc]
    /\ steady' = (steady /\ Delta(eng[c].meters[eng[c].mt][d],
                                  priorCumulative[eng[c].mt][d]) >= 0)
    /\ UNCHANGED <<runPc, runErr, startup, fixedEp, priorCumulative,
                   cumulativePower, gauges, warnings, errorsLogged, resp,
                   requests, tickerC, alone,
                   moving, requested, fixed, closePc, dec, fetched, base>>

\* The warning-or-Add branch on delta.
Branch(c, d, nextPc, keepDelta) ==
    /\ Active(c)
    /\ eng[c].pc = (IF d = "to" THEN "branchTo" ELSE "branchFrom")
    /\ warnings' = warnings + (IF Warns(eng[c].delta) THEN 1 ELSE 0)
    /\ cumulativePower' =
         [cumulativePower EXCEPT
            ![eng[c].mt][d] = AddDelta(cumulativePower[eng[c].mt][d], eng[c].delta)]
    /\ eng' = [eng EXCEPT ![c].pc = nextPc,
                          ![c].delta = IF keepDelta THEN eng[c].delta ELSE 0]
    /\ UNCHANGED <<runPc, runErr, startup, fixedEp, priorCumulative, gauges,
                   errorsLogged, resp, requests, tickerC, alone,
                   moving, requested, fixed, closePc, dec, fetched,
                   steady, base>>

\* Lines 324-325.
PriorTo(c) == ReadPrior(c, "to", "storeTo")

\* Line 326: the "to" value is stored before the branch.
StoreTo(c) ==
    /\ Active(c)
    /\ eng[c].pc = "storeTo"
    /\ priorCumulative' =
         [priorCumulative EXCEPT
            ![eng[c].mt]["to"] = StoredValue(eng[c].meters[eng[c].mt]["to"],
                                             priorCumulative[eng[c].mt]["to"],
                                             eng[c].delta)]
    /\ eng' = [eng EXCEPT ![c].pc = "branchTo"]
    /\ UNCHANGED <<runPc, runErr, startup, fixedEp, cumulativePower, gauges,
                   warnings, errorsLogged, resp, requests, tickerC, alone,
                   moving, requested, fixed, closePc, dec, fetched,
                   steady, base>>

\* Lines 328-337.
BranchTo(c) == Branch(c, "to", "priorFrom", FALSE)

\* Lines 338-339.
PriorFrom(c) == ReadPrior(c, "from", "branchFrom")

\* Lines 340-349.
BranchFrom(c) == Branch(c, "from", "storeFrom", TRUE)

\* Line 350: the "from" value is stored after the branch; then the loop goes
\* to its next entry or, after the last, Update sets the grid gauges (not
\* modelled) and returns nil.
StoreFrom(c) ==
    /\ Active(c)
    /\ eng[c].pc = "storeFrom"
    /\ priorCumulative' =
         [priorCumulative EXCEPT
            ![eng[c].mt]["from"] = StoredValue(eng[c].meters[eng[c].mt]["from"],
                                               priorCumulative[eng[c].mt]["from"],
                                               eng[c].delta)]
    /\ eng' = [eng EXCEPT
                 ![c].delta = 0,
                 ![c].pc = IF eng[c].order = <<>> THEN "polled" ELSE "priorTo",
                 ![c].mt = IF eng[c].order = <<>> THEN "none" ELSE Head(eng[c].order),
                 ![c].order = IF eng[c].order = <<>> THEN <<>> ELSE Tail(eng[c].order)]
    /\ UNCHANGED <<runPc, runErr, startup, fixedEp, cumulativePower, gauges,
                   warnings, errorsLogged, resp, requests, tickerC, alone,
                   moving, requested, fixed, closePc, dec, fetched,
                   steady, base>>

\* ------------------------------------------------- Run: the startup poll
\* `if err := r.poll(); err != nil` in Run: Run enters poll.
RunPoll ==
    /\ runPc = "poll"
    /\ eng["Run"].pc = "idle"
    /\ startup["poll"] = "pending"
    /\ BeginPoll("Run")
    /\ UNCHANGED <<runPc, runErr, startup, fixedEp, priorCumulative,
                   cumulativePower, gauges, warnings, errorsLogged, resp,
                   requests, tickerC,
                   moving, requested, fixed, closePc, dec, fetched>>

\* The startup poll has returned: Run returns its error or goes on.
RunAfterPoll ==
    /\ runPc = "poll"
    /\ eng["Run"].pc = "polled"
    /\ RunAdvance("poll", eng["Run"].err # "none")
    /\ eng' = [eng EXCEPT !["Run"] = IdleEng]
    /\ alone' = [alone EXCEPT !["Run"] = TRUE]
    /\ fetched' = [fetched EXCEPT !["Run"] = <<>>]
    /\ base' = EndPoll("Run")
    /\ UNCHANGED <<fixedEp, priorCumulative, cumulativePower, gauges, warnings,
                   errorsLogged, resp, requests, tickerC, moving, requested,
                   fixed, closePc, dec, steady>>

\* gohttp.Handle("/metrics", r); http.ServeMetrics(port): ListenAndServe
\* either fails (Run returns the error) or serves and blocks.
Listen ==
    /\ runPc = "listen"
    /\ \E failed \in BOOLEAN : RunAdvance("listen", failed)
    /\ UNCHANGED <<fixedEp, eng, priorCumulative, cumulativePower, gauges,
                   warnings, errorsLogged, resp, requests, tickerC, alone,
                   moving, requested, fixed, closePc, dec, fetched,
                   steady, base>>

\* ------------------------------------------------- PollEngine.ServeHTTP
HandlerOrder == <<"h1", "h2">>

Free(h) == eng[h].pc = "idle"

\* net/http starts a goroutine for a /metrics request (the first free one
\* stands for it), which calls ServeHTTP and so poll.
Request(h) ==
    /\ runPc = "serving"
    /\ requests < MaxRequests
    /\ Free(h)
    /\ \A i, j \in 1..Len(HandlerOrder) :
         (HandlerOrder[j] = h /\ i < j) => ~Free(HandlerOrder[i])
    /\ requests' = requests + 1
    /\ resp' = [resp EXCEPT ![h] = NoResponse]
    /\ BeginPoll(h)
    /\ UNCHANGED <<runPc, runErr, startup, fixedEp, priorCumulative,
                   cumulativePower, gauges, warnings, errorsLogged, tickerC,
                   moving, requested, fixed, closePc, dec, fetched>>

\* A ServeHTTP that renders the registry whatever poll returned.
ResponseFor_AlwaysRenders(err) == [status |-> 200, body |-> "metrics"]

\* What ServeHTTP writes once poll has returned err: WriteHeader(500) and
\* nothing else, or the promhttp handler's rendering with status 200.
ResponseFor(err) ==
    IF err # "none" THEN [status |-> 500, body |-> "none"]
    ELSE [status |-> 200, body |-> "metrics"]

\* A ServeHTTP that logs the poll error with glog.Exitf.
ServingAfter_ExitsOnError(err) == IF err # "none" THEN "exited" ELSE "serving"

\* The state of the serving process after ServeHTTP has handled the result
\* of poll: glog.Errorf logs and ServeHTTP returns, the server stays up.
ServingAfter(err) == "serving"

Respond(h) ==
    /\ runPc = "serving"
    /\ eng[h].pc = "polled"
    /\ resp' = [resp EXCEPT ![h] = ResponseFor(eng[h].err)]
    /\ errorsLogged' = errorsLogged + (IF eng[h].err # "none" THEN 1 ELSE 0)
    /\ runPc' = ServingAfter(eng[h].err)
    /\ eng' = [eng EXCEPT ![h] = IdleEng]
    /\ alone' = [alone EXCEPT ![h] = TRUE]
    /\ fetched' = [fetched EXCEPT ![h] = <<>>]
    /\ base' = EndPoll(h)
    /\ UNCHANGED <<runErr, startup, fixedEp, priorCumulative, cumulativePower,
                   gauges, warnings, requests, tickerC, moving, requested,
                   fixed, closePc, dec, steady>>

\* ------------------------------------------------------ runtime and timer
\* Positions at which a caller reads or writes the inner map
\* priorCumulative[mt], and those at which it writes it.
MapAccessPcs == {"priorTo", "storeTo", "priorFrom", "storeFrom"}
MapWritePcs == {"storeTo", "storeFrom"}

\* Two goroutines at accesses of the same inner map, one of them a write: the
\* Go runtime may detect it and end the process ("concurrent map writes",
\* "concurrent map read and map write").
Crash(c1, c2) ==
    /\ runPc = "serving"
    /\ c1 # c2
    /\ eng[c1].pc \in MapWritePcs
    /\ eng[c2].pc \in MapAccessPcs
    /\ eng[c1].mt = eng[c2].mt
    /\ runPc' = "crashed"
    /\ UNCHANGED <<runErr, startup, fixedEp, eng, priorCumulative,
                   cumulativePower, gauges, warnings, errorsLogged, resp,
                   requests, tickerC, alone,
                   moving, requested, fixed, closePc, dec, fetched,
                   steady, base>>

\* time.NewTicker(opts.PollInterval): the runtime timer sends a tick on
\* ticker.C, a channel with a buffer of one (a tick that finds it full is
\* dropped).  The ticker exists from the construction of the PollEngine.
Tick ==
    /\ runPc \in {"poll", "listen", "serving"}
    /\ tickerC = 0
    /\ tickerC' = 1
    /\ UNCHANGED <<runPc, runErr, startup, fixedEp, eng, priorCumulative,
                   cumulativePower, gauges, warnings, errorsLogged, resp,
                   requests, alone,
                   moving, requested, fixed, closePc, dec, fetched,
                   steady, base>>

\* The positions of the code at which a goroutine receives from
\* PollEngine.close: there is none (the channel is made in Run and used only
\* by the send in Close).
CloseReceivePcs == {}

\* The goroutines ready to receive from PollEngine.close.
CloseReceivers == {c \in Callers : eng[c].pc \in CloseReceivePcs}

\* A send on an unbuffered channel: it completes when a receiver is ready and
\* parks the sender otherwise.
SendOn(receivers) == IF receivers # {} THEN "returned" ELSE "blocked"

\* A caller calls PollEngine.Close on the engine Run has created:
\* `p.close <- struct{}{}; return nil`.
Close ==
    /\ runPc \in {"poll", "listen", "serving"}
    /\ closePc = "idle"
    /\ closePc' = SendOn(CloseReceivers)
    /\ UNCHANGED <<runPc, runErr, startup, fixedEp, eng, priorCumulative,
                   cumulativePower, gauges, warnings, errorsLogged, resp,
                   requests, tickerC, alone, moving, requested, fixed, dec, fetched,
                   steady, base>>

\* ------------------------------------------- powerwall client: Get calls
\* The endpoints whose responses carry a field with a scalar codec.
DecodedEndpoints ==
    {"networks", "operation", "grid_status", "powerwalls", "status",
     "aggregates", "site_info"}

\* The responses of the device on endpoint e, by the raw values of the
\* fields with a codec (and the version string of /status).
RawResponses(e) ==
    CASE e = "networks" -> {[interface |-> x] : x \in EnumTokens}
      [] e = "operation" -> {[real_mode |-> x] : x \in EnumTokens}
      [] e = "grid_status" -> {[grid_status |-> x] : x \in EnumTokens}
      [] e = "powerwalls" -> {[grid_state |-> x] : x \in EnumTokens}
      [] e = "aggregates" ->
           {[last_communication_time |-> t] : t \in TimeStrings}
      [] e = "site_info" -> {[timezone |-> z] : z \in ZoneNames}
      [] e = "status" ->
           {[start_time |-> t, up_time_seconds |-> u, version |-> v] :
              t \in PlainTimes \cup {<<>>}, u \in UptimeStrings,
              v \in VersionStrings \cup WideVersionStrings}

\* json.Decode of field f: the UnmarshalJSON of the field's type (a string
\* field is taken as it is).
UnmarshalField(f, x, tzdb) ==
    CASE f = "interface" -> UnmarshalEnum(stringToInterface, x)
      [] f = "real_mode" -> UnmarshalEnum(stringToOperatingMode, x)
      [] f = "grid_status" -> UnmarshalEnum(stringToSystemStatus, x)
      [] f = "grid_state" -> UnmarshalEnum(stringToGridState, x)
      [] f \in {"start_time", "last_communication_time"} -> TimeUnmarshalJSON(x)
      [] f = "up_time_seconds" -> DurationUnmarshalJSON(x)
      [] f = "timezone" -> TimeZoneUnmarshalJSON(x, tzdb)
      [] f = "version" -> [ok |-> TRUE, val |-> x]

\* issueRequest's json Decode of the response, field by field.
JsonDecode(raw, tzdb) ==
    [f \in DOMAIN raw |-> UnmarshalField(f, raw[f], tzdb)]

\* GetX: `if err := m.issueRequest(...); err != nil { return nil, err };
\* return &resp, nil`.
GetResult(fields) ==
    IF \A f \in DOMAIN fields : fields[f].ok
    THEN [err |-> FALSE, rec |-> [f \in DOMAIN fields |-> fields[f].val]]
    ELSE [err |-> TRUE, rec |-> Nil]

\* What the caller of the Get call does with its result: fetchFixedInfo
\* returns the error to model.New and so to Run, or goes on; an op of
\* getDynamicInfo returns the error, which ends model.Poll, or projects the
\* record (getStatus projects the version, which can fail too).
OpAfter(e, get) ==
    IF e \in {FixedEndpoints[i] : i \in 1..Len(FixedEndpoints)}
    THEN IF get.err THEN RunAfter("fixed", TRUE)
         ELSE [pc |-> "fixed", err |-> "none"]
    ELSE IF e = "status" /\ ~get.err
         THEN LET pv == ParseVersion(get.rec.version)
              IN  IF pv.ok
                  THEN FetchResult("Run", e, FALSE, pv.v, NoMeters)
                  ELSE FetchResult("Run", "version", TRUE, NoVersion, NoMeters)
         ELSE FetchResult("Run", e, get.err, NoVersion, NoMeters)

\* The flattened version Update computes from the version of a record that
\* getStatus has projected.
FlattenedOf(e, after) ==
    IF e = "status" /\ after.err = "none"
    THEN ParseInt(FlattenString(after.version))
    ELSE [ok |-> FALSE, val |-> <<"0">>]

\* One Get call of the client on endpoint e: the device answers, the
\* response is decoded, and the caller takes the result.  Whether the
\* machine has a time zone database matters to site_info only.  A Get call
\* depends on nothing an earlier one left, so one call is followed from the
\* initial state.
Get(e) ==
    /\ dec = NotDecoded
    /\ \E raw \in RawResponses(e) :
         \E tzdb \in (IF e = "site_info" THEN BOOLEAN ELSE {TRUE}) :
           LET fields == JsonDecode(raw, tzdb)
               get == GetResult(fields)
               after == OpAfter(e, get)
           IN  dec' = [endpoint |-> e, raw |-> raw, tzdb |-> tzdb,
                       fields |-> fields, err |-> get.err, rec |-> get.rec,
                       after |-> after, flat |-> FlattenedOf(e, after)]
    /\ UNCHANGED <<runPc, runErr, startup, fixedEp, eng, priorCumulative,
                   cumulativePower, gauges, warnings, errorsLogged, resp,
                   requests, tickerC, alone, moving, requested, fixed,
                   closePc, fetched, steady, base>>

\* ---------------------------------------------------------- specification
PollStep(c) ==
    \/ Fetch(c)
    \/ UpdateGauges(c)
    \/ Flatten(c)
    \/ PriorTo(c)
    \/ StoreTo(c)
    \/ BranchTo(c)
    \/ PriorFrom(c)
    \/ BranchFrom(c)
    \/ StoreFrom(c)

Startup ==
    \/ Login
    \/ FetchFixed
    \/ ViewNew
    \/ RunPoll
    \/ RunAfterPoll
    \/ Listen

\* The exporter driven by /metrics requests.  Nothing receives from ticker.C,
\* so a tick neither enables nor changes any of these steps; the timer is
\* part of TimerNext below.
Next ==
    \/ Startup
    \/ \E c \in Callers : PollStep(c)
    \/ \E h \in Handlers : Request(h)
    \/ \E h \in Handlers : Respond(h)
    \/ \E c1, c2 \in Handlers : Crash(c1, c2)

Spec == Init /\ [][Next]_vars

\* The exporter when no /metrics request ever arrives: startup and the timer.
\* The Go scheduler runs every goroutine that can run and the runtime fires
\* the ticker, so a step that stays possible is eventually taken.
TimerNext ==
    \/ Startup
    \/ PollStep("Run")
    \/ Tick

TimerSpec == Init /\ [][TimerNext]_vars /\ WF_vars(TimerNext)

\* The exporter with requests handled one at a time and a caller of
\* PollEngine.Close.  The Go scheduler runs every goroutine that can run and
\* every HTTP exchange ends (the client of powerwall.New has a timeout of 5 s),
\* so each step of Run, of a poll and of a handler that stays possible is
\* eventually taken; requests and the call of Close come when they come.
CloseNext ==
    \/ Startup
    \/ PollStep("Run")
    \/ Request("h1")
    \/ PollStep("h1")
    \/ Respond("h1")
    \/ Close

CloseSpec ==
    /\ Init
    /\ [][CloseNext]_vars
    /\ WF_vars(Startup)
    /\ WF_vars(PollStep("Run"))
    /\ WF_vars(PollStep("h1"))
    /\ WF_vars(Respond("h1"))

\* The Get calls of the client on their own, each on any response of the
\* device: the decoding of the responses and what the caller makes of it.
DecodeNext == \E e \in DecodedEndpoints : Get(e)

DecodeSpec == Init /\ [][DecodeNext]_vars

\* ================================================================== claims
\* Caller c takes the step.
Stepped(c) == eng'[c] # eng[c]

\* The errors with which model.Poll fails: an endpoint's request or decoding,
\* or getStatus's projection of the version.
ModelPollErrors == {Endpoints[i] : i \in 1..Len(Endpoints)} \cup {"version"}

\* Update would flatten this version without error.
Flattenable(v) == ParseInt(FlattenString(v)).ok

\* ---------------------------------------------------------------------- C1
\* C1: for every meter and direction, no step of any behaviour (successful
\* and failed polls, arbitrary readings, concurrent requests) decreases the
\* exported cumulative_power counter.
C1_CounterNeverDecreases ==
    [][\A mt \in MeterTypes, d \in Dirs :
         cumulativePower'[mt][d] >= cumulativePower[mt][d]]_vars

\* A decrease beyond the tolerance and a failed poll have happened, and the
\* counter of the moving meter holds what the earlier increases added.
C1_Witness ==
    /\ warnings >= 1
    /\ errorsLogged >= 1
    /\ \A h \in Handlers : eng[h].pc = "idle"
    /\ cumulativePower[moving]["to"] >= Readings.high[moving]["to"]

\* ---------------------------------------------------------------------- C2
\* C2: in Update, for each meter and direction, delta is the current reading
\* minus the stored last-recorded value; the branch on delta adds exactly
\* delta to that meter's and direction's counter when delta >= 0 and leaves
\* it unchanged when delta < 0, and changes no other counter.
C2_BranchStep(c, d) ==
    LET mt == eng[c].mt
        delta == eng[c].delta
    IN  /\ cumulativePower'[mt][d] =
             IF delta >= 0 THEN cumulativePower[mt][d] + delta
             ELSE cumulativePower[mt][d]
        /\ \A m2 \in MeterTypes, d2 \in Dirs :
             <<m2, d2>> # <<mt, d>> => cumulativePower'[m2][d2] = cumulativePower[m2][d2]

C2_ReadStep(c, d) ==
    eng'[c].delta = eng[c].meters[eng[c].mt][d] - priorCumulative[eng[c].mt][d]

C2_AddsExactlyDelta ==
    [][\A c \in Callers :
         Stepped(c) =>
           /\ eng[c].pc = "priorTo" => C2_ReadStep(c, "to")
           /\ eng[c].pc = "priorFrom" => C2_ReadStep(c, "from")
           /\ eng[c].pc = "branchTo" => C2_BranchStep(c, "to")
           /\ eng[c].pc = "branchFrom" => C2_BranchStep(c, "from")]_vars

\* A request polled alone after the startup poll stored the low reading: its
\* "to" branch has just added the difference to the high reading.
C2_Witness ==
    \E h \in Handlers :
      /\ eng[h].pc = "priorFrom"
      /\ eng[h].mt = moving
      /\ alone[h]
      /\ requests = 1
      /\ eng[h].meters[moving]["to"] = Readings.high[moving]["to"]
      /\ cumulativePower[moving]["to"] = Readings.high[moving]["to"]
      /\ priorCumulative[moving]["to"] = Readings.high[moving]["to"]

\* ---------------------------------------------------------------------- C3
\* C3: after every successful poll cycle, whatever the sign of the deltas,
\* the stored last-recorded value of each meter and direction equals the
\* reading of that cycle.
C3_StoredEqualsReading ==
    \A c \in Callers :
      (eng[c].pc = "polled" /\ eng[c].err = "none") =>
        priorCumulative = eng[c].meters

\* What Update does for C3 on its own: each store writes the cycle's reading
\* whatever the sign of the delta, and each delta is computed from the value
\* stored at that moment.
C3_StoreStep ==
    \A c \in Callers :
      Stepped(c) =>
        /\ eng[c].pc = "storeTo" =>
             priorCumulative'[eng[c].mt]["to"] = eng[c].meters[eng[c].mt]["to"]
        /\ eng[c].pc = "storeFrom" =>
             priorCumulative'[eng[c].mt]["from"] = eng[c].meters[eng[c].mt]["from"]
        /\ eng[c].pc = "priorTo" => C2_ReadStep(c, "to")
        /\ eng[c].pc = "priorFrom" => C2_ReadStep(c, "from")

\* C3 restricted to the poll cycles that no other cycle overlapped (the
\* startup poll, and requests handled one at a time).
C3_AfterCycleAlone ==
    \A c \in Callers :
      (eng[c].pc = "polled" /\ eng[c].err = "none" /\ alone[c]) =>
        priorCumulative = eng[c].meters

C3_HoldsWithoutOverlap == [][C3_StoreStep]_vars /\ []C3_AfterCycleAlone

\* ---------------------------------------------------------------------- C4
\* C4: the branch on delta writes a "cumulative energy decreased" warning if
\* and only if delta < -epsilon; for -epsilon <= delta < 0 it writes no
\* warning and adds nothing; for delta >= 0 it writes no warning; and no
\* other step writes a warning.
C4_BranchStep(c, d) ==
    LET mt == eng[c].mt
        delta == eng[c].delta
    IN  /\ delta < -Epsilon => warnings' = warnings + 1
        /\ delta >= -Epsilon => warnings' = warnings
        /\ (delta < 0 /\ delta >= -Epsilon) =>
             cumulativePower'[mt][d] = cumulativePower[mt][d]

C4_WarnsIffBeyondTolerance ==
    [][/\ \A c \in Callers :
            Stepped(c) =>
              /\ eng[c].pc = "branchTo" => C4_BranchStep(c, "to")
              /\ eng[c].pc = "branchFrom" => C4_BranchStep(c, "from")
       /\ warnings' # warnings =>
            \E c \in Callers :
              Stepped(c) /\ eng[c].pc \in {"branchTo", "branchFrom"}]_vars

\* A lone request has just branched on a "from" delta that is negative and
\* within the tolerance: the only warning so far is the one of its "to"
\* delta, and the "from" counter still holds what the startup poll added.
C4_Witness ==
    \E h \in Handlers :
      /\ eng[h].pc = "storeFrom"
      /\ eng[h].mt = moving
      /\ eng[h].delta < 0
      /\ eng[h].delta >= -Epsilon
      /\ alone[h]
      /\ requests = 1
      /\ warnings = 1
      /\ cumulativePower[moving]["from"] = Readings.high[moving]["from"]

\* ---------------------------------------------------------------------- C5
\* C5: a poll cycle in which fetching or decoding an endpoint fails never
\* reaches Update, and none of its steps (the fetches, the failing one, the
\* return of the error) changes a stored last-recorded value or an exported
\* counter.
C5_FailedNeverUpdates ==
    \A c \in Callers : eng[c].err \in ModelPollErrors => eng[c].pc = "polled"

C5_FailingStep ==
    \A c \in Callers :
      (Stepped(c) /\ (eng[c].pc = "fetch" \/ eng[c].err \in ModelPollErrors)) =>
        /\ priorCumulative' = priorCumulative
        /\ cumulativePower' = cumulativePower

C5_FailedPollLeavesState == [][C5_FailingStep]_vars /\ []C5_FailedNeverUpdates

\* A request's poll has failed at aggregates after an earlier cycle stored
\* readings and published increments.
C5_Witness ==
    \E h \in Handlers :
      /\ eng[h].pc = "polled"
      /\ eng[h].err = "aggregates"
      /\ priorCumulative[moving]["to"] = Readings.high[moving]["to"]
      /\ cumulativePower[moving]["to"] = Readings.high[moving]["to"]

\* ---------------------------------------------------------------------- C6
\* C6: at most one poll cycle (model.Poll followed by view.Update) is in
\* progress at any time.
C6_AtMostOnePollInProgress ==
    Cardinality({c \in Callers : InPoll(c)}) <= 1

\* ---------------------------------------------------------------------- C7
\* C7: when no request ever arrives, a tick of the poll-interval ticker that
\* the serving process has received is eventually followed by a poll.
C7_TickIsFollowedByPoll ==
    (runPc = "serving" /\ tickerC = 1) ~> (\E c \in Callers : InPoll(c))

\* ---------------------------------------------------------------------- C8
\* C8: ServeHTTP answers a request only after the poll it started for that
\* request has returned; the status is 500 with no body if and only if that
\* poll failed, and 200 with the rendered metrics otherwise, in which case
\* every endpoint was fetched during the request.
C8_RespondStep ==
    \A h \in Handlers :
      resp'[h] # resp[h] =>
        \/ /\ eng[h].pc = "idle"
           /\ resp'[h] = NoResponse
        \/ /\ eng[h].pc = "polled"
           /\ resp'[h].status = 500 <=> eng[h].err # "none"
           /\ resp'[h].status = 200 <=> eng[h].err = "none"
           /\ resp'[h].status = 200 =>
                /\ resp'[h].body = "metrics"
                /\ eng[h].ep = Len(Endpoints) + 1
           /\ resp'[h].status = 500 => resp'[h].body = "none"

C8_Answered ==
    \A h \in Handlers :
      /\ resp[h].status \in {0, 200, 500}
      /\ InCycle(h) => resp[h] = NoResponse

C8_StatusReflectsPoll == [][C8_RespondStep]_vars /\ []C8_Answered

\* A request has been answered 500 without a body although an earlier cycle
\* had populated the metrics.
C8_Witness ==
    \E h \in Handlers :
      /\ resp[h] = [status |-> 500, body |-> "none"]
      /\ eng[h].pc = "idle"
      /\ cumulativePower[moving]["to"] > 0

\* ---------------------------------------------------------------------- C9
\* C9: a failed poll does not stop the serving process: the step on which a
\* request's poll fails and the step that answers it 500 leave the server
\* serving and the latter frees the handler; a request can then start a poll
\* again; and a poll is successful whenever every endpoint answered and the
\* version can be flattened, however many polls failed before.
C9_FailureStep ==
    \A h \in Handlers :
      (Stepped(h) /\ (eng[h].err # "none" \/ eng'[h].err # "none")) =>
        /\ runPc' = "serving"
        /\ eng[h].pc = "polled" => eng'[h] = IdleEng

C9_Armed ==
    /\ (runPc = "serving" /\ requests < MaxRequests /\ \E h \in Handlers : Free(h))
         => ENABLED (\E h \in Handlers : Request(h))
    /\ \A c \in Callers :
         (/\ eng[c].pc = "polled"
          /\ eng[c].ep = Len(Endpoints) + 1
          /\ Flattenable(eng[c].version)) => eng[c].err = "none"

C9_FailedPollKeepsServing == [][C9_FailureStep]_vars /\ []C9_Armed

\* After a request was answered 500, a later request's poll, which no other
\* cycle overlapped, has succeeded.
C9_Witness ==
    \E h \in Handlers :
      /\ runPc = "serving"
      /\ errorsLogged >= 1
      /\ requests = 2
      /\ alone[h]
      /\ eng[h].pc = "polled"
      /\ eng[h].err = "none"

\* --------------------------------------------------------------------- C10
\* C10 as stated: Run returns an error before serving only if the first poll
\* fails.
C10_OnlyFirstPollRefuses == runPc = "exited" => runErr = "poll"

StepIndex(s) == CHOOSE i \in 1..Len(StartupSteps) : StartupSteps[i] = s

\* C10 (amended): Run returns an error instead of serving exactly when one
\* of its startup steps fails (the login of powerwall.New, the FixedInfo
\* fetch of model.New, the registration of view.New, the first poll, or
\* http.ServeMetrics); the error names that step, no later step was run, and
\* the server serves only after all five succeeded.
C10_RefusesIffAStartupStepFails ==
    LET steps == {StartupSteps[i] : i \in 1..Len(StartupSteps)}
        failed == {s \in steps : startup[s] = "failed"}
    IN  /\ (runPc = "exited") <=> (failed # {})
        /\ (runErr # "none") <=> (failed # {})
        /\ \A s \in failed :
             /\ runErr = RunErrorOf(s)
             /\ \A t \in steps :
                  /\ StepIndex(t) < StepIndex(s) => startup[t] = "ok"
                  /\ StepIndex(t) > StepIndex(s) => startup[t] = "pending"
        /\ runPc \in {"serving", "crashed"} => \A s \in steps : startup[s] = "ok"

\* Run has returned an error of a startup step other than the first poll.
C10_Witness ==
    /\ runPc = "exited"
    /\ runErr \in {"powerwall.New", "model.New", "view.New", "http.ServeMetrics"}
    /\ startup["poll"] # "failed"

\* --------------------------------------------------------------------- C11
\* C11: each of site_info, powerwalls, config and solars is requested at most
\* once in the life of the process, and only by the startup step of
\* model.New; once model.New has returned, each has been requested exactly
\* once and the FixedInfo is the one built from those four answers; no step
\* of a poll cycle (fetches, Update) or of a request changes the FixedInfo.
C11_Step ==
    /\ requested' # requested =>
          /\ runPc = "fixed"
          /\ \E e \in DOMAIN requested :
               /\ requested[e] = 0
               /\ requested' = [requested EXCEPT ![e] = 1]
    /\ fixed' # fixed =>
          /\ runPc = "fixed"
          /\ fixed = Nil
          /\ \A c \in Callers : eng[c] = IdleEng
    /\ (\E c \in Callers : Stepped(c)) =>
          /\ fixed' = fixed
          /\ requested' = requested

C11_Fetched ==
    /\ \A e \in DOMAIN requested : requested[e] <= 1
    /\ runPc \in {"view", "poll", "listen", "serving", "crashed"} =>
          /\ \A e \in DOMAIN requested : requested[e] = 1
          /\ fixed = FetchFixedInfo(FixedAnswers)
    /\ runPc \in {"login", "fixed"} => fixed = Nil

C11_FixedInfoFetchedOnce == [][C11_Step]_vars /\ []C11_Fetched

\* Two requests have been polled and answered after the startup poll, and
\* the counters have been updated.
C11_Witness ==
    /\ runPc = "serving"
    /\ requests = 2
    /\ \A h \in Handlers : eng[h].pc = "idle" /\ resp[h].status = 200
    /\ cumulativePower[moving]["to"] > 0
    /\ \A e \in DOMAIN requested : requested[e] = 1

\* --------------------------------------------------------------------- C12
\* Every call of PollEngine.poll returns.
C12_PollReturns == \A c \in Callers : InPoll(c) ~> ~InPoll(c)

\* Every call of PollEngine.ServeHTTP returns.
C12_ServeHTTPReturns ==
    \A h \in Handlers : (eng[h].pc # "idle") ~> (eng[h].pc = "idle")

\* Every call of PollEngine.Close returns.
C12_CloseReturns == (closePc # "idle") ~> (closePc = "returned")

\* C12: every call of PollEngine.poll, PollEngine.ServeHTTP and
\* PollEngine.Close on the engine Run has created eventually returns.
C12_EveryCallReturns ==
    /\ C12_PollReturns
    /\ C12_ServeHTTPReturns
    /\ C12_CloseReturns

\* --------------------------------------------------------------------- C13
\* The poll cycle of caller c returns an error: model.Poll has failed, or
\* the cycle is in Update with a version whose flattening fails.
C13_CycleFails(c) ==
    \/ eng[c].err # "none"
    \/ eng[c].pc \in {"update", "flatten"} /\ ~Flattenable(eng[c].version)

\* C13: no step of a poll cycle that returns an error (from model.Poll or
\* from Update) changes a published gauge or counter.
C13_FailedCycleChangesNothing ==
    [][\A c \in Callers :
         (Stepped(c) /\ (C13_CycleFails(c) \/ eng'[c].err # "none")) =>
           /\ gauges' = gauges
           /\ cumulativePower' = cumulativePower]_vars

\* --------------------------------------------------------------------- C14
\* The enum fields of the responses and the table of each one's type.
C14_Tables ==
    [interface |-> stringToInterface, real_mode |-> stringToOperatingMode,
     grid_status |-> stringToSystemStatus, grid_state |-> stringToGridState]

C15_Combined(s) ==
    LET m == UptimeSubmatch(s)[1]
        v(cap) == IF cap = <<>> THEN 0 ELSE NatOf(cap)
    IN  [secs |-> v(m.hours) * 3600 + v(m.minutes) * 60 + v(m.seconds),
         nanos |-> v(m.nanoseconds)]

\* C15: an up_time string that matches the duration form decodes without
\* error to hours*1h + minutes*1m + seconds*1s + nanoseconds, an absent
\* hours or minutes group contributing zero ("5.0s" is 5 seconds).
C15_AbsentGroupsAreZero ==
    (/\ dec # NotDecoded
     /\ dec.endpoint = "status"
     /\ UptimeSubmatch(dec.raw.up_time_seconds) # <<>>) =>
       dec.fields.up_time_seconds =
         [ok |-> TRUE, val |-> C15_Combined(dec.raw.up_time_seconds)]

\* --------------------------------------------------------------------- C16
\* The raw value x of field f is outside the accepted domain of the field's
\* codec: not a token of the enum's table, a timestamp that matches none of
\* the three layouts, an up_time that does not match the duration form.
C16_OutOfDomain(f, x) ==
    CASE f \in DOMAIN C14_Tables -> x \notin DOMAIN C14_Tables[f]
      [] f \in {"start_time", "last_communication_time"} ->
           /\ x # <<>>
           /\ \A i \in 1..Len(Layouts) :
                ~TimeParse(Layouts[i], StripFractionalSeconds(x)).ok
      [] f = "up_time_seconds" -> UptimeSubmatch(x) = <<>>
      [] OTHER -> FALSE

\* C16: when a field of a response carries a value outside its codec's
\* domain, the Get call of that endpoint returns an error and a nil record.
C16_OutOfDomainFailsGet ==
    dec # NotDecoded =>
      \A f \in DOMAIN dec.raw :
        C16_OutOfDomain(f, dec.raw[f]) => (dec.err /\ dec.rec = Nil)

\* C16 for the enum and Time fields alone, where it holds.
C16_HoldsForEnumsAndTimes ==
    dec # NotDecoded =>
      \A f \in DOMAIN dec.raw \ {"up_time_seconds"} :
        C16_OutOfDomain(f, dec.raw[f]) => (dec.err /\ dec.rec = Nil)

\* --------------------------------------------------------------------- C17
\* The three numbers a version string begins with.
C17_Numbers(g) == [Major |-> Canon(g[1]), Minor |-> Canon(g[2]), Release |-> Canon(g[3])]

\* The number of a numeric group is at most math.MaxInt64.
C17_FitsInt64(ds) ==
    \/ Len(Canon(ds)) < Len(MaxInt64Digits)
    \/ Len(Canon(ds)) = Len(MaxInt64Digits) /\ DigitsLeq(Canon(ds), MaxInt64Digits)

\* C17 as stated: when /status is decoded, a version that does not begin
\* with three dot-separated numeric groups fails the poll cycle before
\* Update, and one that does gives Major, Minor and Release as those numbers.
C17_ThreeGroupsOrError ==
    (dec # NotDecoded /\ dec.endpoint = "status" /\ ~dec.err) =>
      LET g == VersionSubmatch(dec.raw.version)
      IN  /\ g = <<>> => (dec.after.err = "version" /\ dec.after.pc = "polled")
          /\ g # <<>> => (dec.after.err = "none" /\ dec.after.version = C17_Numbers(g))

\* C17 (amended): a version that does not begin with three dot-separated
\* numeric groups, or one of whose three numbers exceeds the int64 range,
\* fails the poll cycle with an error before Update; otherwise Major, Minor
\* and Release are the three numbers, whatever follows them.
C17_ThreeInt64GroupsOrError ==
    (dec # NotDecoded /\ dec.endpoint = "status" /\ ~dec.err) =>
      LET g == VersionSubmatch(dec.raw.version)
          fit == g # <<>> /\ \A i \in 1..3 : C17_FitsInt64(g[i])
      IN  /\ ~fit => (dec.after.err = "version" /\ dec.after.pc = "polled")
          /\ fit => /\ dec.after.err = "none"
                    /\ dec.after.pc = "fetch"
                    /\ dec.after.version = C17_Numbers(g)

\* /status has reported a version that begins with three numeric groups, the
\* first above the int64 range, and the poll cycle has failed.
C17_Witness ==
    /\ dec # NotDecoded
    /\ dec.endpoint = "status"
    /\ ~dec.err
    /\ VersionSubmatch(dec.raw.version) # <<>>
    /\ dec.after.err = "version"
    /\ dec.after.pc = "polled"

\* --------------------------------------------------------------------- C18
\* a < b for numerals without leading zeros.
C18_Less(a, b) ==
    \/ Len(a) < Len(b)
    \/ Len(a) = Len(b) /\ a # b /\ DigitsLeq(a, b)

\* Version a precedes version b in (major, minor, release) order.
C18_Precedes(a, b) ==
    \/ C18_Less(a.Major, b.Major)
    \/ a.Major = b.Major /\ C18_Less(a.Minor, b.Minor)
    \/ a.Major = b.Major /\ a.Minor = b.Minor /\ C18_Less(a.Release, b.Release)

\* The versions the device reports that can be flattened.
C18_Versions ==
    {ParseVersion(s).v :
       s \in {t \in VersionStrings \cup WideVersionStrings :
                ParseVersion(t).ok /\ Flattenable(ParseVersion(t).v)}}

\* C18: the flattened version is the concatenation of the three components,
\* each zero-padded to two digits, read as an integer, and it orders the
\* versions as (major, minor, release) does: a precedes b if and only if
\* flattened(a) < flattened(b).
C18_FlattenedIsComparable ==
    (dec # NotDecoded /\ dec.flat.ok) =>
      LET a == dec.after.version
      IN  /\ dec.flat.val = Canon(Pad2(a.Major) \o Pad2(a.Minor) \o Pad2(a.Release))
          /\ \A b \in C18_Versions :
               C18_Precedes(a, b) <=>
                 C18_Less(dec.flat.val, ParseInt(FlattenString(b)).val)

\* C18 for versions whose minor and release have at most two digits, where
\* it holds.
C18_HoldsForTwoDigits ==
    (dec # NotDecoded /\ dec.flat.ok) =>
      LET a == dec.after.version
          two(v) == Len(v.Minor) <= 2 /\ Len(v.Release) <= 2
      IN  /\ dec.flat.val = Canon(Pad2(a.Major) \o Pad2(a.Minor) \o Pad2(a.Release))
          /\ \A b \in C18_Versions :
               (two(a) /\ two(b)) =>
                 (C18_Precedes(a, b) <=>
                    C18_Less(dec.flat.val, ParseInt(FlattenString(b)).val))

\* --------------------------------------------------------------------- C19
\* C19: a timestamp that is accepted without a fraction decodes, with a
\* ".digits" fraction after its seconds, without error to the same time as
\* without the fraction; and "" decodes to the zero time without error.
C19_FractionIgnored ==
    dec # NotDecoded =>
      \A f \in DOMAIN dec.raw \cap {"start_time", "last_communication_time"} :
        /\ \A b \in PlainTimes, fr \in Fractions :
             (dec.raw[f] = WithFraction(b, fr) /\ TimeUnmarshalJSON(b).ok) =>
               /\ dec.fields[f].ok
               /\ dec.fields[f] = TimeUnmarshalJSON(b)
               /\ dec.fields[f].val.nsec = 0
        /\ dec.raw[f] = <<>> => dec.fields[f] = [ok |-> TRUE, val |-> ZeroTime]

\* /meters/aggregates has reported "2019-07-01 10:00:00.123456789 -0700" and
\* GetAggregates has decoded it to 10:00:00 sharp, 7 hours west of UTC.
C19_Witness ==
    /\ dec # NotDecoded
    /\ dec.endpoint = "aggregates"
    /\ Len(dec.raw.last_communication_time) = 35
    /\ dec.raw.last_communication_time[11] = " "
    /\ ~dec.err
    /\ dec.rec.last_communication_time.hour = 10
    /\ dec.rec.last_communication_time.nsec = 0
    /\ dec.rec.last_communication_time.offset = -420

\* --------------------------------------------------------------------- C20
\* C20: when the timezone name /site_info reports cannot be resolved,
\* TimeZone.UnmarshalJSON returns no error and leaves the location nil,
\* GetSiteInfo returns the record and fetchFixedInfo goes on.
C20_UnresolvedZoneIsNoError ==
    (/\ dec # NotDecoded
     /\ dec.endpoint = "site_info"
     /\ ~LoadLocation(dec.raw.timezone, dec.tzdb).ok) =>
       /\ dec.fields.timezone = [ok |-> TRUE, val |-> Nil]
       /\ ~dec.err
       /\ dec.rec # Nil
       /\ dec.rec.timezone = Nil
       /\ dec.after = [pc |-> "fixed", err |-> "none"]

\* /site_info has reported "Europe/Berlin" to a machine without a time zone
\* database, and GetSiteInfo has returned a record without location.
C20_Witness ==
    /\ dec # NotDecoded
    /\ dec.endpoint = "site_info"
    /\ dec.raw.timezone = "Europe/Berlin"
    /\ ~dec.tzdb
    /\ ~dec.err
    /\ dec.rec.timezone = Nil

\* --------------------------------------------------------------------- C21
\* The order in which a poll cycle requests the endpoints.
C21_Order ==
    <<"operation", "status", "networks", "sitemaster", "aggregates", "soe",
      "grid_status">>

\* The endpoint whose op returned the error err of model.Poll (the error of
\* the version's projection is getStatus's, after its request of status).
C21_EndpointOf(err) == IF err = "version" THEN "status" ELSE err

\* The requests of the cycle of caller c so far are the first ones of the
\* fixed order, each once; a cycle in Update or returned without an error of
\* model.Poll has requested all seven; a cycle in which an endpoint failed
\* has returned that endpoint's error to the caller of poll, and the failed
\* endpoint is the last one it requested.
C21_Cycle(c) ==
    /\ Len(fetched[c]) <= Len(C21_Order)
    /\ fetched[c] = SubSeq(C21_Order, 1, Len(fetched[c]))
    /\ (InCycle(c) /\ eng[c].pc # "fetch" /\ eng[c].err \notin ModelPollErrors) =>
          fetched[c] = C21_Order
    /\ eng[c].err \in ModelPollErrors =>
          /\ eng[c].pc = "polled"
          /\ fetched[c] # <<>>
          /\ fetched[c][Len(fetched[c])] = C21_EndpointOf(eng[c].err)

\* A step changes the requests of a cycle only by one more request, of a
\* cycle in which no endpoint has failed, or by the end of the cycle; and
\* the caller of a poll that failed takes the error: ServeHTTP answers 500,
\* Run returns "poll(): ...".
C21_Step ==
    \A c \in Callers :
      /\ fetched'[c] # fetched[c] =>
            \/ /\ eng[c].pc = "fetch" /\ eng[c].err = "none"
               /\ Len(fetched'[c]) = Len(fetched[c]) + 1
               /\ SubSeq(fetched'[c], 1, Len(fetched[c])) = fetched[c]
            \/ eng[c].pc = "polled" /\ eng'[c] = IdleEng /\ fetched'[c] = <<>>
      /\ (eng[c].pc = "polled" /\ eng[c].err # "none" /\ Stepped(c)) =>
            IF c = "Run" THEN runPc' = "exited" /\ runErr' = "poll"
            ELSE resp'[c] = [status |-> 500, body |-> "none"]

\* C21: within one poll cycle the endpoints are requested in the order
\* operation, status, networks, sitemaster, aggregates, soe, grid_status,
\* each at most once; at the first endpoint that returns an error the cycle
\* stops, no later endpoint is requested, and that error is returned to the
\* caller of the poll.
C21_FetchedInFixedOrder ==
    [][C21_Step]_vars /\ [](\A c \in Callers : C21_Cycle(c))

\* One request's cycle has stopped at the error of aggregates after four
\* good answers while the other's has requested all seven and is in Update.
C21_Witness ==
    /\ eng["h1"].pc = "polled"
    /\ eng["h1"].err = "aggregates"
    /\ fetched["h1"] = SubSeq(C21_Order, 1, 5)
    /\ eng["h2"].pc = "update"
    /\ fetched["h2"] = C21_Order

\* --------------------------------------------------------------------- C22
\* No poll cycle is inside the meter loop of Update.
C22_NoUpdateInProgress ==
    \A c \in Callers : eng[c].pc \notin (PollPcs \ {"fetch", "update", "flatten"})

\* C22: the stored values start at zero and, as long as the polls have run
\* one at a time and no reading (all are non-negative) was below the one
\* before it, after every successful poll the exported counter of each meter
\* and direction equals that poll's reading, which is also the value stored;
\* after the first poll the counters hold the device's cumulative values
\* whole.
C22_CounterEqualsReading ==
    /\ runPc \in {"login", "fixed", "view"} =>
          /\ priorCumulative = NoMeters
          /\ cumulativePower = NoMeters
    /\ steady =>
          /\ \A c \in Callers :
               (eng[c].pc = "polled" /\ eng[c].err = "none") =>
                 /\ cumulativePower = eng[c].meters
                 /\ \A mt \in MeterTypes, d \in Dirs : eng[c].meters[mt][d] >= 0
          /\ C22_NoUpdateInProgress => cumulativePower = priorCumulative
          /\ (eng["Run"].pc = "polled" /\ eng["Run"].err = "none") =>
               \A mt \in MeterTypes, d \in Dirs :
                 cumulativePower[mt][d] \in
                   {Readings.low[d], Readings.high[mt][d]}

\* The second request after the startup poll, each poll on its own, has
\* polled successfully: the moving meter was at its low reading before and
\* is at its high reading now, and the counter equals the high reading.
C22_Witness ==
    /\ steady
    /\ requests = 2
    /\ eng["h1"].pc = "polled"
    /\ eng["h1"].err = "none"
    /\ eng["h1"].meters[moving] = Readings.high[moving]
    /\ cumulativePower[moving] = Readings.high[moving]

\* --------------------------------------------------------------------- C23
\* What Update adds to a counter when the stored value is p and the snapshots
\* with readings x and then y are applied one after the other.
C23_AddedInOrder(p, x, y) ==
    AddDelta(AddDelta(0, Delta(x, p)), Delta(y, x))

\* The cycles of h1 and h2 are the only two that began since no cycle was in
\* flight, they ran at the same time, and both have returned without error.
C23_BothPolled ==
    /\ \A h \in Handlers :
         eng[h].pc = "polled" /\ eng[h].err = "none" /\ ~alone[h]
    /\ requests = base.requests + 2

\* C23: when the polls of two requests have run concurrently, for each meter
\* and direction the two together have added to the counter what the two
\* snapshots add when applied one after the other, in one order or the other.
C23_NoDeltaCountedTwice ==
    C23_BothPolled =>
      \A mt \in MeterTypes, d \in Dirs :
        cumulativePower[mt][d] - base.counter[mt][d] \in
          { C23_AddedInOrder(base.prior[mt][d], eng["h1"].meters[mt][d],
                             eng["h2"].meters[mt][d]),
            C23_AddedInOrder(base.prior[mt][d], eng["h2"].meters[mt][d],
                             eng["h1"].meters[mt][d]) }

\* --------------------------------------------------------------------- C24
\* The order of Run's steps.
C24_Order == <<"login", "fixed", "view", "poll", "listen", "serving">>

\* The first poll has populated the metrics: the version gauges are set and
\* every counter holds a cumulative reading of the device.
C24_Populated ==
    /\ gauges.major # NoVersion.Major
    /\ gauges.flattened # <<"0">>
    /\ \A mt \in MeterTypes, d \in Dirs :
         cumulativePower[mt][d] >= Readings.low[d]

\* Run moves from a step to the next one of the order only, or returns an
\* error; the requests to the device for the FixedInfo are made at the second
\* step; Run polls at the fourth step only, and once; requests are received,
\* polled for and answered while Run serves only.
C24_Step ==
    /\ runPc' # runPc =>
          \/ \E i \in 1..(Len(C24_Order) - 1) :
               runPc = C24_Order[i] /\ runPc' = C24_Order[i + 1]
          \/ runPc' = "exited" /\ runPc # "serving"
          \/ runPc' = "crashed" /\ runPc = "serving"
    /\ requested' # requested => runPc = "fixed"
    /\ Stepped("Run") => runPc = "poll"
    /\ (eng["Run"].pc = "idle" /\ Stepped("Run")) => startup["poll"] = "pending"
    /\ (requests' # requests \/ resp' # resp \/ \E h \in Handlers : Stepped(h)) =>
          runPc = "serving" /\ startup["poll"] = "ok"

\* A step of Run has been taken only when the steps before it have
\* succeeded; the handler is registered and the server listens (Run is at
\* "listen" or beyond) only after the first poll has succeeded, the metrics
\* are populated from then on, and a request is in progress or answered only
\* then.
C24_Ordered ==
    /\ \A i, j \in 1..Len(StartupSteps) :
         (i < j /\ startup[StartupSteps[j]] # "pending") =>
           startup[StartupSteps[i]] = "ok"
    /\ runPc \in {"listen", "serving", "crashed"} =>
          /\ startup["poll"] = "ok"
          /\ C24_Populated
    /\ (requests > 0 \/ \E h \in Handlers : eng[h] # IdleEng \/ resp[h] # NoResponse) =>
          /\ runPc \in {"serving", "crashed"}
          /\ startup["poll"] = "ok"
          /\ C24_Populated

\* C24: startup is login, then the FixedInfo fetch, then the registration of
\* the instruments, then one poll, then serving; the /metrics handler is
\* registered and the server listens only after the first poll has succeeded,
\* and no request is answered before the metrics have been populated once.
C24_ServesAfterFirstPoll == [][C24_Step]_vars /\ []C24_Ordered

\* Run serves after its five steps succeeded, and the first request has been
\* answered with the metrics.
C24_Witness ==
    /\ runPc = "serving"
    /\ \A i \in 1..Len(StartupSteps) : startup[StartupSteps[i]] = "ok"
    /\ requests = 1
    /\ resp["h1"] = [status |-> 200, body |-> "metrics"]
    /\ C24_Populated

====
